---- MODULE Spec2Model ----
(***************************************************************************)
(* State-machine model of retail_pipeline.py: one run of main(), from      *)
(* pd.read_csv to the final statistics, with the group-by of step 2, the   *)
(* files of steps 3, 4 and 7 and the three SQL queries of step 5.          *)
(*                                                                         *)
(* Numbers.  Sales and Profit are decimal amounts; the model counts them   *)
(* in thousandths of a currency unit (mills), so 10.004 is 10004 and the   *)
(* SQL ROUND(x, 2) is a rounding to a multiple of 10 mills.  Sums are      *)
(* exact; the rounding error of float64 addition is not modelled.  The     *)
(* Sales and Profit columns are REAL columns (decimal amounts in the CSV,  *)
(* as create_sample_data writes them), so "/" in SQL is real division.     *)
(* Means are exact rationals [num, den] in lowest terms.  Every row has a  *)
(* Category, a Region and an Order Date (no missing values).               *)
(*                                                                         *)
(* Text.  A text value is the sequence of its character codes, compared    *)
(* as SQLite's BINARY collation and Python's str compare it.               *)
(***************************************************************************)
EXTENDS Integers, Sequences, FiniteSets

VARIABLES
    pc,             \* the statement of main() the run is at
    csv,            \* the rows of retail_sales.csv
    df,             \* the DataFrame df
    daily_agg,      \* the DataFrame daily_agg
    metadata_file,  \* iceberg_metadata.json: "absent", "partial" or "complete"
    parquet_file,   \* sales_daily.parquet: "absent", "partial" or "complete"
    sales_daily,    \* the table sales_daily of the in-memory SQLite database
    results,        \* the results of the queries run so far, in the order of the list
    output,         \* the files of output/ written completely
    readme,         \* the figures of output/README.md, once written
    failed,         \* the stage that raised, "none" while none has
    cause           \* "data" when the input made it raise, "io" when a write failed

vars == <<pc, csv, df, daily_agg, metadata_file, parquet_file,
          sales_daily, results, output, readme, failed, cause>>

-----------------------------------------------------------------------------
(* Bounds of the input families *)

\* most transactions in the CSV file of specification Spec
MaxRows == 3

\* rows of the catalogue the CSV file of specification SpecWide is drawn from
NumWide == 12

\* LIMIT of the three queries
TopCategories == 5
TrendDays == 7
TopRegions == 3

-----------------------------------------------------------------------------
(* Arithmetic *)

Abs(x) == IF x < 0 THEN -x ELSE x

Min(a, b) == IF a <= b THEN a ELSE b

RECURSIVE GCD(_, _)
GCD(a, b) == IF b = 0 THEN a ELSE GCD(b, a % b)

\* a / b as an exact rational in lowest terms, b > 0 (Python float division)
Rat(a, b) ==
    LET g == GCD(Abs(a), b)
    IN  IF a = 0 THEN [num |-> 0, den |-> 1]
        ELSE [num |-> a \div g, den |-> b \div g]

\* a / b rounded to the nearest integer, halves away from zero, b > 0
RoundDiv(a, b) ==
    LET m == Abs(a)
        q == (m \div b) + (IF 2 * (m % b) >= b THEN 1 ELSE 0)
    IN  IF a >= 0 THEN q ELSE -q

\* SQL ROUND(x, 2) of an amount in mills: the result in hundredths (cents)
Round2(x) == RoundDiv(x, 10)

-----------------------------------------------------------------------------
(* Text and dates *)

RECURSIVE TextLess(_, _)
TextLess(s, t) ==
    IF t = <<>> THEN FALSE
    ELSE IF s = <<>> THEN TRUE
    ELSE IF Head(s) # Head(t) THEN Head(s) < Head(t)
    ELSE TextLess(Tail(s), Tail(t))

Digit(n) == 48 + n

TwoDigits(n) == <<Digit((n \div 10) % 10), Digit(n % 10)>>

FourDigits(n) == <<Digit((n \div 1000) % 10), Digit((n \div 100) % 10)>> \o TwoDigits(n)

LeapYear(y) == (y % 4 = 0 /\ y % 100 # 0) \/ y % 400 = 0

DaysInMonth(m, y) ==
    IF m = 2 THEN (IF LeapYear(y) THEN 29 ELSE 28)
    ELSE IF m \in {4, 6, 9, 11} THEN 30 ELSE 31

\* pd.to_datetime(..., format='%m/%d/%Y') accepts the fields <<m, d, y>> of the text
ValidDate(t) ==
    /\ t[1] \in 1..12
    /\ t[3] \in 1..9999
    /\ t[2] >= 1 /\ t[2] <= DaysInMonth(t[1], t[3])

\* the parsed calendar date <<y, m, d>>
ParseDate(t) == <<t[3], t[1], t[2]>>

\* datetime.date comparison
DateLess(a, b) ==
    \/ a[1] < b[1]
    \/ a[1] = b[1] /\ a[2] < b[2]
    \/ a[1] = b[1] /\ a[2] = b[2] /\ a[3] < b[3]

\* variant: the date kept in the month/day/year form of the input file
UsText(d) == TwoDigits(d[2]) \o <<47>> \o TwoDigits(d[3]) \o <<47>> \o FourDigits(d[1])

\* date.isoformat(): the text sqlite3 stores for a datetime.date, YYYY-MM-DD
IsoText(d) == FourDigits(d[1]) \o <<45>> \o TwoDigits(d[2]) \o <<45>> \o TwoDigits(d[3])

-----------------------------------------------------------------------------
(* Step 2: the group-by of df on (order_day, Category, Region) *)

KeyOf(r) == <<r.order_day, r.Category, r.Region>>

\* the order pandas sorts the group keys in (sort=True)
KeyLess(a, b) ==
    \/ DateLess(a[1], b[1])
    \/ a[1] = b[1] /\ TextLess(a[2], b[2])
    \/ a[1] = b[1] /\ a[2] = b[2] /\ TextLess(a[3], b[3])

RECURSIVE SortedKeys(_)
SortedKeys(S) ==
    IF S = {} THEN <<>>
    ELSE LET k == CHOOSE x \in S : \A o \in S : o = x \/ KeyLess(x, o)
         IN  <<k>> \o SortedKeys(S \ {k})

\* variant: only the first row of the group
GroupIndexFirst(frame, k) ==
    LET I == {i \in DOMAIN frame : KeyOf(frame[i]) = k}
    IN  {CHOOSE i \in I : \A j \in I : i <= j}

\* the positions of the rows of frame that fall in group k
GroupIndex(frame, k) == {i \in DOMAIN frame : KeyOf(frame[i]) = k}

RECURSIVE SumOver(_, _, _)
SumOver(frame, I, col) ==
    IF I = {} THEN 0
    ELSE LET i == CHOOSE x \in I : TRUE
         IN  frame[i][col] + SumOver(frame, I \ {i}, col)

\* variant: 'count' in place of 'nunique'
CountRows(frame, I) == Cardinality(I)

\* 'nunique' of Order ID
NUnique(frame, I) == Cardinality({frame[i].order_id : i \in I})

\* variant: the sum over the number of distinct orders
MeanOverOrders(frame, I, col) == Rat(SumOver(frame, I, col), NUnique(frame, I))

\* 'mean': the sum over the number of rows of the group
Mean(frame, I, col) == Rat(SumOver(frame, I, col), Cardinality(I))

AggRow(frame, k) ==
    LET I == GroupIndex(frame, k)
    IN  [date           |-> k[1],
         category       |-> k[2],
         region         |-> k[3],
         total_sales    |-> SumOver(frame, I, "Sales"),
         avg_sales      |-> Mean(frame, I, "Sales"),
         total_profit   |-> SumOver(frame, I, "Profit"),
         avg_profit     |-> Mean(frame, I, "Profit"),
         total_quantity |-> SumOver(frame, I, "Quantity"),
         unique_orders  |-> NUnique(frame, I)]

GroupByAgg(frame) ==
    LET ks == SortedKeys({KeyOf(frame[i]) : i \in DOMAIN frame})
    IN  [n \in 1..Len(ks) |-> AggRow(frame, ks[n])]

-----------------------------------------------------------------------------
(* Step 5: the sales_daily table and the three queries *)

\* daily_agg.to_sql: the same rows, each datetime.date stored as its ISO text
ToSql(agg) == [n \in DOMAIN agg |-> [agg[n] EXCEPT !.date = IsoText(@)]]

RECURSIVE SortedTexts(_)
SortedTexts(S) ==
    IF S = {} THEN <<>>
    ELSE LET t == CHOOSE x \in S : \A o \in S : o = x \/ TextLess(x, o)
         IN  <<t>> \o SortedTexts(S \ {t})

Null == [null |-> TRUE, val |-> 0]

NotNull(v) == [null |-> FALSE, val |-> v]

\* ROUND(p / s * 100, 2) in hundredths of a percent; NULL when s = 0 (SQLite
\* evaluates a division by zero to NULL and ROUND(NULL, 2) to NULL)
SqlMargin(p, s) ==
    IF s = 0 THEN Null
    ELSE IF s > 0 THEN NotNull(RoundDiv(p * 10000, s))
    ELSE NotNull(RoundDiv((-p) * 10000, -s))

\* ORDER BY ... DESC of the grouped rows, keys[j] being the sort key of rows[j]: a
\* row with the greater key first; rows with equal keys leave SQLite's sorter in
\* the reverse of the order they entered it, which is the ascending order of the
\* GROUP BY key.  A key is a sequence compared element by element.
OrderByDesc(rows, keys) ==
    LET n == Len(rows)
        Before(j, k) == \/ TextLess(keys[k], keys[j])
                        \/ ~TextLess(keys[j], keys[k]) /\ j > k
        Rank(j) == Cardinality({k \in 1..n : k # j /\ Before(k, j)})
    IN  [i \in 1..n |-> rows[CHOOSE j \in 1..n : Rank(j) = i - 1]]

Limit(rows, n) == SubSeq(rows, 1, Min(n, Len(rows)))

\* SELECT of queries 1 and 3 for the group whose rows are at positions I
MarginRow(table, I, name) ==
    [name           |-> name,
     revenue        |-> Round2(SumOver(table, I, "total_sales")),
     profit         |-> Round2(SumOver(table, I, "total_profit")),
     margin_percent |-> SqlMargin(SumOver(table, I, "total_profit"),
                                  SumOver(table, I, "total_sales"))]

\* ORDER BY revenue DESC: revenue is the alias of ROUND(SUM(total_sales), 2)
RevenueKey(row) == <<row.revenue>>

\* ORDER BY margin_percent DESC: the alias of the rounded ratio; NULL is the least
MarginKey(row) ==
    IF row.margin_percent.null THEN <<0>> ELSE <<1, row.margin_percent.val>>

\* ORDER BY date DESC: the column date, a text
DateKey(row) == row.name

\* query 1, "Top-5 categories by revenue"
TopCategoriesQuery(table) ==
    LET cats == SortedTexts({table[i].category : i \in DOMAIN table})
        grouped == [n \in 1..Len(cats) |->
                      MarginRow(table, {i \in DOMAIN table : table[i].category = cats[n]},
                                cats[n])]
        keys == [n \in DOMAIN grouped |-> RevenueKey(grouped[n])]
    IN  Limit(OrderByDesc(grouped, keys), TopCategories)

\* query 2, "Sales by day"
DailyTrendQuery(table) ==
    LET days == SortedTexts({table[i].date : i \in DOMAIN table})
        grouped == [n \in 1..Len(days) |->
                      LET I == {i \in DOMAIN table : table[i].date = days[n]}
                      IN  [name          |-> days[n],
                           daily_revenue |-> SumOver(table, I, "total_sales"),
                           daily_items   |-> SumOver(table, I, "total_quantity"),
                           records_count |-> Cardinality(I)]]
        keys == [n \in DOMAIN grouped |-> DateKey(grouped[n])]
    IN  Limit(OrderByDesc(grouped, keys), TrendDays)

\* HAVING revenue > 0: revenue names no column of sales_daily, so SQLite takes the
\* alias of the result column, ROUND(SUM(total_sales), 2)
HavingRevenue(row) == row.revenue > 0

\* query 3, "Regions with the highest margin"
TopRegionsQuery(table) ==
    LET regs == SortedTexts({table[i].region : i \in DOMAIN table})
        grouped == [n \in 1..Len(regs) |->
                      MarginRow(table, {i \in DOMAIN table : table[i].region = regs[n]},
                                regs[n])]
        kept == SelectSeq(grouped, HavingRevenue)
        keys == [n \in DOMAIN kept |-> MarginKey(kept[n])]
    IN  Limit(OrderByDesc(kept, keys), TopRegions)

\* the i-th entry of the list queries
Query(i, table) ==
    IF i = 1 THEN TopCategoriesQuery(table)
    ELSE IF i = 2 THEN DailyTrendQuery(table)
    ELSE TopRegionsQuery(table)

-----------------------------------------------------------------------------
(* Step 7: create_readme *)

RECURSIVE SumColumn(_, _)
SumColumn(frame, col) ==
    IF frame = <<>> THEN 0 ELSE Head(frame)[col] + SumColumn(Tail(frame), col)

Raised == [error |-> TRUE, val |-> 0]

Value(v) == [error |-> FALSE, val |-> v]

\* variant: the ratio without the guard, where a division by a zero sum raises
AvgMarginUnguarded(agg) ==
    IF SumColumn(agg, "total_sales") = 0 THEN Raised
    ELSE Value(RoundDiv(SumColumn(agg, "total_profit") * 10000,
                        SumColumn(agg, "total_sales")))

\* avg_margin, in hundredths of a percent
AvgMargin(agg) ==
    IF SumColumn(agg, "total_sales") > 0
    THEN Value(RoundDiv(SumColumn(agg, "total_profit") * 10000,
                        SumColumn(agg, "total_sales")))
    ELSE Value(0)

-----------------------------------------------------------------------------
(* The input files *)

Text(c) == <<c>>

\* (Order Date, Category, Region) of the rows of specification Spec
ProductKeys ==
    << <<<<1, 5, 2024>>, Text(84), Text(69)>>,
       <<<<1, 5, 2024>>, Text(70), Text(69)>>,
       <<<<12, 31, 2023>>, Text(84), Text(87)>> >>

\* (Sales, Profit, Quantity) of the rows of specification Spec
ProductMeasures ==
    << <<100000, 10000, 1>>, <<200000, 20000, 2>>, <<300000, 30000, 3>> >>

ProductOrders == <<1, 2, 3>>

NumProduct == Len(ProductKeys) * Len(ProductMeasures) * Len(ProductOrders)

Row(id, order, date, category, region, sales, profit, quantity) ==
    [row_id     |-> id,
     order_id   |-> order,
     order_date |-> date,
     Category   |-> category,
     Region     |-> region,
     Sales      |-> sales,
     Profit     |-> profit,
     Quantity   |-> quantity]

\* a row whose Order Date names no month
BadRow(id) == Row(id, 1, <<13, 1, 2024>>, Text(84), Text(69), 100000, 10000, 1)

\* the catalogue of Spec: every key with every measure and every order id
ProductRow(id) ==
    LET j == id - 1
        k == ProductKeys[(j % Len(ProductKeys)) + 1]
        m == ProductMeasures[((j \div Len(ProductKeys)) % Len(ProductMeasures)) + 1]
        o == ProductOrders[(j \div (Len(ProductKeys) * Len(ProductMeasures))) + 1]
    IN  IF id > NumProduct THEN BadRow(id)
        ELSE Row(id, o, k[1], k[2], k[3], m[1], m[2], m[3])

WideDates ==
    << <<12, 30, 2023>>, <<12, 31, 2023>>, <<1, 1, 2024>>, <<1, 2, 2024>>,
       <<2, 28, 2024>>, <<2, 29, 2024>>, <<3, 1, 2024>>, <<10, 9, 2024>> >>

WideCategories ==
    <<Text(65), Text(66), Text(67), Text(68), Text(69), Text(70), Text(65), Text(66),
      Text(65)>>

WideRegions == <<Text(67), Text(69), Text(83), Text(87)>>

WideSales == <<10004, 10001, 0, 4, 5000, 10000, 20000>>

WideProfit == <<1000, 2000, 0, 3, -500>>

Cycle(list, id) == list[((id - 1) % Len(list)) + 1]

\* the catalogue of SpecWide: row id takes the id-th date, category, region, ...
WideRow(id) ==
    IF id > NumWide THEN BadRow(id)
    ELSE Row(id, id, Cycle(WideDates, id), Cycle(WideCategories, id),
             Cycle(WideRegions, id), Cycle(WideSales, id), Cycle(WideProfit, id),
             ((id - 1) % 3) + 1)

\* the increasing sequences of at most k row ids from lo..hi
RECURSIVE Increasing(_, _, _)
Increasing(lo, hi, k) ==
    IF k = 0 \/ lo > hi THEN {<<>>}
    ELSE {<<>>} \cup
         UNION {{<<i>> \o s : s \in Increasing(i + 1, hi, k - 1)} : i \in lo..hi}

\* files of at most MaxRows rows of the product catalogue, in Row ID order
ProductFiles ==
    {[n \in DOMAIN s |-> ProductRow(s[n])] : s \in Increasing(1, NumProduct + 1, MaxRows)}

\* files of any rows of the wide catalogue, in Row ID order
WideFiles ==
    {[n \in DOMAIN s |-> WideRow(s[n])] : s \in Increasing(1, NumWide + 1, NumWide + 1)}

-----------------------------------------------------------------------------
(* The run *)

Start(files) ==
    /\ csv \in files
    /\ pc = "read_csv"
    /\ df = <<>>
    /\ daily_agg = <<>>
    /\ metadata_file = "absent"
    /\ parquet_file = "absent"
    /\ sales_daily = <<>>
    /\ results = <<>>
    /\ output = {}
    /\ readme = <<>>
    /\ failed = "none"
    /\ cause = "none"

Init == Start(ProductFiles)

InitWide == Start(WideFiles)

\* an exception leaves main(): nothing catches it, the process ends
Abort(stage, why) ==
    /\ pc' = "aborted"
    /\ failed' = stage
    /\ cause' = why

\* step 1: df = pd.read_csv(csv_file)
ReadCsv ==
    /\ pc = "read_csv"
    /\ df' = csv
    /\ pc' = "to_datetime"
    /\ UNCHANGED <<csv, daily_agg, metadata_file, parquet_file, sales_daily,
                   results, output, readme, failed, cause>>

\* df['Order Date'] = pd.to_datetime(df['Order Date'], format='%m/%d/%Y')
ToDatetime ==
    /\ pc = "to_datetime"
    /\ \/ /\ \A i \in DOMAIN df : ValidDate(df[i].order_date)
          /\ df' = [i \in DOMAIN df |-> [df[i] EXCEPT !.order_date = ParseDate(@)]]
          /\ pc' = "groupby"
          /\ UNCHANGED <<failed, cause>>
       \/ /\ \E i \in DOMAIN df : ~ValidDate(df[i].order_date)
          /\ Abort("to_datetime", "data")
          /\ UNCHANGED df
    /\ UNCHANGED <<csv, daily_agg, metadata_file, parquet_file, sales_daily,
                   results, output, readme>>

\* df['order_day'] = df['Order Date'].dt.date
WithOrderDay(frame) ==
    [i \in DOMAIN frame |->
        [f \in DOMAIN frame[i] \cup {"order_day"} |->
            IF f = "order_day" THEN frame[i].order_date ELSE frame[i][f]]]

\* step 2: the order_day column and daily_agg
GroupBy ==
    /\ pc = "groupby"
    /\ df' = WithOrderDay(df)
    /\ daily_agg' = GroupByAgg(df')
    /\ pc' = "metadata"
    /\ UNCHANGED <<csv, metadata_file, parquet_file, sales_daily, results,
                   output, readme, failed, cause>>

\* step 3: json.dump(iceberg_metadata) into iceberg_metadata.json
WriteMetadata ==
    /\ pc = "metadata"
    /\ \/ /\ metadata_file' = "complete"
          /\ pc' = "parquet"
          /\ UNCHANGED <<failed, cause>>
       \/ /\ metadata_file' \in {"absent", "partial"}
          /\ Abort("metadata", "io")
    /\ UNCHANGED <<csv, df, daily_agg, parquet_file, sales_daily, results,
                   output, readme>>

\* step 4: daily_agg.to_parquet('sales_daily.parquet')
WriteParquet ==
    /\ pc = "parquet"
    /\ \/ /\ parquet_file' = "complete"
          /\ pc' = "to_sql"
          /\ UNCHANGED <<failed, cause>>
       \/ /\ parquet_file' \in {"absent", "partial"}
          /\ Abort("parquet", "io")
    /\ UNCHANGED <<csv, df, daily_agg, metadata_file, sales_daily, results,
                   output, readme>>

\* step 5: daily_agg.to_sql('sales_daily', conn)
LoadSql ==
    /\ pc = "to_sql"
    /\ sales_daily' = ToSql(daily_agg)
    /\ pc' = "queries"
    /\ UNCHANGED <<csv, df, daily_agg, metadata_file, parquet_file, results,
                   output, readme, failed, cause>>

NumQueries == Len(<<"top_categories", "daily_trend", "top_regions">>)

\* one turn of the loop over queries; a result that is empty prints no rows
RunQuery ==
    /\ pc = "queries"
    /\ results' = Append(results, Query(Len(results) + 1, sales_daily))
    /\ pc' = IF Len(results') = NumQueries THEN "save" ELSE "queries"
    /\ UNCHANGED <<csv, df, daily_agg, metadata_file, parquet_file, sales_daily,
                   output, readme, failed, cause>>

\* step 7: output/daily_sales_aggregated.csv, then .parquet
Save ==
    /\ pc = "save"
    /\ \/ /\ output' = {"daily_sales_aggregated.csv", "daily_sales_aggregated.parquet"}
          /\ pc' = "readme"
          /\ UNCHANGED <<failed, cause>>
       \/ /\ output' \in {{}, {"daily_sales_aggregated.csv"}}
          /\ Abort("save", "io")
    /\ UNCHANGED <<csv, df, daily_agg, metadata_file, parquet_file, sales_daily,
                   results, readme>>

\* create_readme(daily_agg)
CreateReadme ==
    /\ pc = "readme"
    /\ LET margin == AvgMargin(daily_agg)
       IN  \/ /\ ~margin.error
              /\ readme' = <<[total_transactions |-> Len(daily_agg),
                              total_sales_sum   |-> SumColumn(daily_agg, "total_sales"),
                              total_profit_sum  |-> SumColumn(daily_agg, "total_profit"),
                              avg_margin        |-> margin.val]>>
              /\ output' = output \cup {"README.md"}
              /\ pc' = "statistics"
              /\ UNCHANGED <<failed, cause>>
           \/ /\ ~margin.error
              /\ Abort("readme", "io")
              /\ UNCHANGED <<readme, output>>
           \/ /\ margin.error
              /\ Abort("readme", "data")
              /\ UNCHANGED <<readme, output>>
    /\ UNCHANGED <<csv, df, daily_agg, metadata_file, parquet_file, sales_daily,
                   results>>

\* the closing statistics
Statistics ==
    /\ pc = "statistics"
    /\ pc' = "done"
    /\ UNCHANGED <<csv, df, daily_agg, metadata_file, parquet_file, sales_daily,
                   results, output, readme, failed, cause>>

Next ==
    \/ ReadCsv
    \/ ToDatetime
    \/ GroupBy
    \/ WriteMetadata
    \/ WriteParquet
    \/ LoadSql
    \/ RunQuery
    \/ Save
    \/ CreateReadme
    \/ Statistics

Spec == Init /\ [][Next]_vars

SpecWide == InitWide /\ [][Next]_vars

-----------------------------------------------------------------------------
(* What the claims speak of, computed from the input file and from daily_agg *)

\* daily_agg has been computed from df
Aggregated == pc \notin {"read_csv", "to_datetime", "groupby"} /\ failed # "to_datetime"

\* the transactions of the file that share the key of an aggregate row
Contributing(a) ==
    {i \in DOMAIN csv : /\ ParseDate(csv[i].order_date) = a.date
                        /\ csv[i].Category = a.category
                        /\ csv[i].Region = a.region}

NoOrderRepeats(I) == \A i, j \in I : i # j => csv[i].order_id # csv[j].order_id

RECURSIVE Total(_, _)
Total(S, f) ==
    IF S = {} THEN 0
    ELSE LET x == CHOOSE y \in S : TRUE IN x[f] + Total(S \ {x}, f)

AggRows == {daily_agg[n] : n \in DOMAIN daily_agg}

CategoryRevenue(c) == Total({a \in AggRows : a.category = c}, "total_sales")

RegionRevenue(r) == Total({a \in AggRows : a.region = r}, "total_sales")

RegionProfit(r) == Total({a \in AggRows : a.region = r}, "total_profit")

Ran(q) == Len(results) >= q

-----------------------------------------------------------------------------
(* The claims *)

\* C1: the aggregate rows' total_sales, total_profit and total_quantity add up to
\* the Sales, Profit and Quantity of all the transactions of the input: no row is
\* dropped from the aggregates or counted twice.
ConservationOfTotals ==
    Aggregated =>
        /\ SumColumn(daily_agg, "total_sales") = SumColumn(csv, "Sales")
        /\ SumColumn(daily_agg, "total_profit") = SumColumn(csv, "Profit")
        /\ SumColumn(daily_agg, "total_quantity") = SumColumn(csv, "Quantity")
        /\ \A i \in DOMAIN csv : \E a \in AggRows : i \in Contributing(a)

\* C1 witness: three transactions aggregated into two groups, one of two rows
ConservationWitness ==
    /\ Aggregated
    /\ Len(csv) = 3
    /\ Len(daily_agg) = 2

\* the input of the scenario: sales 100, 200, 300, profit 10, 20, 30, quantity
\* 1, 2, 3, three order ids, one date, category and region
IsScenario ==
    /\ Len(csv) = 3
    /\ \A i \in 1..3 : /\ csv[i].Sales = 100000 * i
                       /\ csv[i].Profit = 10000 * i
                       /\ csv[i].Quantity = i
                       /\ csv[i].order_id = i
                       /\ KeyOf(WithOrderDay(csv)[i]) = KeyOf(WithOrderDay(csv)[1])

\* C4: avg_sales is total_sales over the number of transactions of the row's
\* (date, category, region) and avg_profit is total_profit over the same number,
\* also where order ids repeat or quantities exceed 1; the scenario of three
\* transactions gives total_sales 600, avg_sales 200, total_profit 60, avg_profit 20.
MeanOverTransactions ==
    Aggregated =>
        /\ \A a \in AggRows :
              LET n == Cardinality(Contributing(a))
              IN  /\ n > 0
                  /\ a.avg_sales.den > 0 /\ a.avg_profit.den > 0
                  /\ a.avg_sales.num * n = a.total_sales * a.avg_sales.den
                  /\ a.avg_profit.num * n = a.total_profit * a.avg_profit.den
        /\ IsScenario =>
              /\ Len(daily_agg) = 1
              /\ daily_agg[1].total_sales = 600000
              /\ daily_agg[1].avg_sales = [num |-> 200000, den |-> 1]
              /\ daily_agg[1].total_profit = 60000
              /\ daily_agg[1].avg_profit = [num |-> 20000, den |-> 1]
              /\ daily_agg[1].total_quantity = 6
              /\ daily_agg[1].unique_orders = 3

\* C4 witness: a group of three transactions with two order ids and six items
MeanWitness ==
    /\ Aggregated
    /\ \E a \in AggRows : /\ Cardinality(Contributing(a)) = 3
                          /\ a.unique_orders = 2
                          /\ a.total_quantity = 6

\* C5: unique_orders is at most the number of transactions of the group, and equal
\* to it exactly when no Order ID occurs twice in the group.
UniqueOrdersBound ==
    Aggregated =>
        \A a \in AggRows :
            /\ a.unique_orders <= Cardinality(Contributing(a))
            /\ a.unique_orders = Cardinality(Contributing(a))
                  <=> NoOrderRepeats(Contributing(a))

\* C5 witness: a group where an order id repeats beside a group where none does
UniqueOrdersWitness ==
    /\ Aggregated
    /\ \E a, b \in AggRows :
          /\ Cardinality(Contributing(a)) = 2 /\ a.unique_orders = 1
          /\ Cardinality(Contributing(b)) = 1 /\ b.unique_orders = 1

\* the calendar dates of daily_agg
AggDates == {a.date : a \in AggRows}

\* C8: the daily-trend query returns one row per date for the 7 latest dates of the
\* table (all of them if fewer), latest first, each with the sum of total_sales,
\* the sum of total_quantity and the number of aggregate rows of its date.
DailyTrendLatestSeven ==
    Ran(2) =>
        LET r == results[2]
            D(i) == CHOOSE d \in AggDates : IsoText(d) = r[i].name
        IN  /\ Len(r) = Min(7, Cardinality(AggDates))
            /\ \A i \in DOMAIN r : \E d \in AggDates : IsoText(d) = r[i].name
            /\ \A i, j \in DOMAIN r : i < j => DateLess(D(j), D(i))
            /\ \A d \in AggDates :
                  (\A i \in DOMAIN r : D(i) # d) => \A i \in DOMAIN r : DateLess(d, D(i))
            /\ \A i \in DOMAIN r :
                  LET S == {a \in AggRows : a.date = D(i)}
                  IN  /\ r[i].daily_revenue = Total(S, "total_sales")
                      /\ r[i].daily_items = Total(S, "total_quantity")
                      /\ r[i].records_count = Cardinality(S)

\* C8 witness: more than 7 dates in the table, and a returned date with two
\* aggregate rows
DailyTrendWitness ==
    /\ Ran(2)
    /\ Cardinality(AggDates) > 7
    /\ Len(results[2]) = 7
    /\ \E i \in DOMAIN results[2] : results[2][i].records_count = 2

\* C9: with no transaction in the input no stage fails because of the data, the
\* aggregate table and every query result are empty, and the run that no write
\* fails in goes on to its end with metadata, columnar output and report written.
EmptyInputCompletes ==
    Len(csv) = 0 =>
        /\ cause # "data"
        /\ daily_agg = <<>>
        /\ \A q \in DOMAIN results : results[q] = <<>>
        /\ pc \notin {"done", "aborted"} => ENABLED Next
        /\ pc = "done" =>
              /\ Len(results) = NumQueries
              /\ metadata_file = "complete"
              /\ parquet_file = "complete"
              /\ output = {"daily_sales_aggregated.csv",
                           "daily_sales_aggregated.parquet", "README.md"}
              /\ readme # <<>>

\* C9 witness: the run over an empty input has ended
EmptyInputWitness ==
    /\ Len(csv) = 0
    /\ pc = "done"
    /\ Len(results) = NumQueries
    /\ readme # <<>>

\* C2: after a run has failed and aborted, a metadata document on disk implies
\* an aggregate columnar output that was written completely.
MetadataImpliesOutput ==
    pc = "aborted" => (metadata_file = "complete" => parquet_file = "complete")

\* C3: in the top-categories and the top-regions query a group whose summed
\* total_sales is 0 has margin_percent 0, not NULL.
ZeroRevenueZeroMargin ==
    /\ Ran(1) => \A i \in DOMAIN results[1] :
                    CategoryRevenue(results[1][i].name) = 0
                        => results[1][i].margin_percent = NotNull(0)
    /\ Ran(3) => \A i \in DOMAIN results[3] :
                    RegionRevenue(results[3][i].name) = 0
                        => results[3][i].margin_percent = NotNull(0)

AggRegions == {a.region : a \in AggRows}

AggCategories == {a.category : a \in AggRows}

\* C6: the top-regions query returns at most 3 rows, none of a region whose revenue
\* is 0 or less; they are the regions of highest margin among those with revenue
\* above 0, in descending order of margin_percent.
TopRegionsByMargin ==
    Ran(3) =>
        LET r == results[3]
            returned == {r[i].name : i \in DOMAIN r}
        IN  /\ Len(r) <= 3
            /\ \A i \in DOMAIN r : RegionRevenue(r[i].name) > 0
            /\ \A i, j \in DOMAIN r :
                  i < j => r[i].margin_percent.val >= r[j].margin_percent.val
            /\ \A g \in AggRegions \ returned :
                  RegionRevenue(g) > 0 =>
                      /\ Len(r) = 3
                      /\ \A i \in DOMAIN r :
                            r[i].margin_percent.val
                               >= SqlMargin(RegionProfit(g), RegionRevenue(g)).val

\* C7: the top-categories query returns at most 5 rows, one per category, in
\* descending order of the sum of total_sales of the category, and no category
\* left out has a greater sum than a category returned.
TopCategoriesByRevenue ==
    Ran(1) =>
        LET r == results[1]
            returned == {r[i].name : i \in DOMAIN r}
        IN  /\ Len(r) <= 5
            /\ returned \subseteq AggCategories
            /\ Cardinality(returned) = Len(r)
            /\ \A i, j \in DOMAIN r :
                  i < j => CategoryRevenue(r[i].name) >= CategoryRevenue(r[j].name)
            /\ \A c \in AggCategories \ returned :
                  \A i \in DOMAIN r : CategoryRevenue(c) <= CategoryRevenue(r[i].name)

\* C10: the queries order and filter on the full-precision sums: the order of the
\* top-categories rows follows the unrounded revenue, the order of the top-regions
\* rows the unrounded margin, and a region whose revenue is above 0 and below
\* 0.005 is not filtered out.
FullPrecisionOrderAndFilter ==
    /\ Ran(1) => \A i, j \in DOMAIN results[1] :
                    i < j => CategoryRevenue(results[1][i].name)
                                >= CategoryRevenue(results[1][j].name)
    /\ Ran(3) =>
          LET r == results[3]
              returned == {r[i].name : i \in DOMAIN r}
          IN  /\ \A i, j \in DOMAIN r :
                    (i < j /\ RegionRevenue(r[i].name) > 0 /\ RegionRevenue(r[j].name) > 0)
                        => RegionProfit(r[i].name) * RegionRevenue(r[j].name)
                              >= RegionProfit(r[j].name) * RegionRevenue(r[i].name)
              /\ \A g \in AggRegions :
                    (RegionRevenue(g) > 0 /\ RegionRevenue(g) < 5)
                        => g \in returned \/ Len(r) = TopRegions

====
